---- MODULE Spec2Model ----
(***************************************************************************)
(* A model of setup-sshd-action (src/src/index.js): the SSHServerManager   *)
(* class and the top-level entry that runs either the setup pass or the    *)
(* post-action cleanup, depending on the persisted "isPost" state.         *)
(*                                                                         *)
(* Text is modelled as a sequence of tokens.  A token is a word (a maximal *)
(* run of non-blank characters, such as "AllowUsers" or "kA") or a single  *)
(* whitespace character (" " or "\n").  Template literals are token        *)
(* concatenations, so an interpolated value that holds a line break really *)
(* breaks the line of the document it is spliced into.                     *)
(***************************************************************************)
EXTENDS Integers, Sequences, FiniteSets, TLC

VARIABLES
    platform,     \* process.platform
    inPort,       \* env INPUT_PORT, raw
    inUser,       \* env INPUT_SSH-USER, raw
    inKeys,       \* env INPUT_AUTHORIZED-KEYS, raw
    inUseActor,   \* env INPUT_USE-ACTOR-SSH-KEYS, raw
    githubActor,  \* env GITHUB_ACTOR
    userInfoOk,   \* whether os.userInfo() finds the invoking account
    inServerKey,  \* env INPUT_SERVER-KEY, raw (an input of the README)
    savedState,   \* the runner's saved state "isPost" of this step
    phase,        \* the runner's phase of this step: main, post, done
    pc,           \* position inside the running invocation
    sshPort,      \* manager.sshPort
    sshUser,      \* manager.sshUser
    files,        \* the host's files: path -> content (a token sequence)
    outputs,      \* core.setOutput: name -> value
    log,          \* the calls made so far: commands, writes, warnings, failures
    rendered      \* the last document returned by generateSSHDConfig

vars == <<platform, inPort, inUser, inKeys, inUseActor, githubActor, userInfoOk,
          inServerKey, savedState, phase, pc, sshPort, sshUser, files, outputs, log, rendered>>

----------------------------------------------------------------------------
(* Bounds of the model. *)

MaxUserLen == 3
MaxKeysLen == 2
MaxBodyLen == 1
MaxLiteralLen == 5          \* tokens of the authorized-keys input, no fetch
MaxFetchedLiteralLen == 3   \* tokens of the authorized-keys input, with a fetch
MaxRemoteLen == 3           \* tokens of the body of the actor's keys

----------------------------------------------------------------------------
(* Strings as token sequences. *)

NL == "\n"
SP == " "
Whitespace == {SP, NL}

SeqsUpTo(S, n) == UNION {[1..k -> S] : k \in 0..n}

RECURSIVE TrimStart(_)
TrimStart(s) ==
    IF s # <<>> /\ Head(s) \in Whitespace THEN TrimStart(Tail(s)) ELSE s

RECURSIVE TrimEnd(_)
TrimEnd(s) ==
    IF s # <<>> /\ s[Len(s)] \in Whitespace
    THEN TrimEnd(SubSeq(s, 1, Len(s) - 1)) ELSE s

\* String.prototype.trim
Trim(s) == TrimEnd(TrimStart(s))

\* String.prototype.split("\n"): the lines of s, "" giving one empty line
RECURSIVE Split(_)
Split(s) ==
    IF \A i \in 1..Len(s) : s[i] # NL THEN <<s>>
    ELSE LET i == CHOOSE j \in 1..Len(s) :
                      s[j] = NL /\ \A k \in 1..(j - 1) : s[k] # NL
         IN  <<SubSeq(s, 1, i - 1)>> \o Split(SubSeq(s, i + 1, Len(s)))

\* Array.prototype.join("\n")
RECURSIVE Join(_)
Join(ls) ==
    IF ls = <<>> THEN <<>>
    ELSE IF Len(ls) = 1 THEN ls[1]
    ELSE ls[1] \o <<NL>> \o Join(Tail(ls))

\* several words on one line, one blank between two words
RECURSIVE Words(_)
Words(ws) ==
    IF ws = <<>> THEN <<>>
    ELSE IF Len(ws) = 1 THEN <<ws[1]>>
    ELSE <<ws[1], SP>> \o Words(Tail(ws))

RECURSIVE Flatten(_)
Flatten(ss) == IF ss = <<>> THEN <<>> ELSE Head(ss) \o Flatten(Tail(ss))

\* core.getInput(name): the environment's value, trimmed
getInput(raw) == Trim(raw)

----------------------------------------------------------------------------
(* Platform paths. *)

Platforms == {"win32", "darwin", "linux"}

\* os.homedir()
homedir(plat) == IF plat = "darwin" THEN "/Users/runner" ELSE "/home/runner"

WinSSHDir == "C:\\ProgramData\\ssh"

\* path.join(dir, name), for the joins the program makes
pathJoin(dir, name) ==
    CASE dir = "/home/runner" /\ name = ".ssh" -> "/home/runner/.ssh"
      [] dir = "/Users/runner" /\ name = ".ssh" -> "/Users/runner/.ssh"
      [] dir = "/home/runner/.ssh" /\ name = "authorized_keys"
            -> "/home/runner/.ssh/authorized_keys"
      [] dir = "/Users/runner/.ssh" /\ name = "authorized_keys"
            -> "/Users/runner/.ssh/authorized_keys"
      [] dir = "/home/runner/.ssh" /\ name = "sshd_config"
            -> "/home/runner/.ssh/sshd_config"
      [] dir = "/Users/runner/.ssh" /\ name = "sshd_config"
            -> "/Users/runner/.ssh/sshd_config"
      [] dir = "/home/runner/.ssh" /\ name = "sshd_config_custom"
            -> "/home/runner/.ssh/sshd_config_custom"
      [] dir = "/Users/runner/.ssh" /\ name = "sshd_config_custom"
            -> "/Users/runner/.ssh/sshd_config_custom"
      [] dir = WinSSHDir /\ name = "sshd_config"
            -> "C:\\ProgramData\\ssh\\sshd_config"

getSSHDirectory(plat) ==
    IF plat = "win32" THEN WinSSHDir ELSE pathJoin(homedir(plat), ".ssh")

\* getAuthorizedKeysPath with the plain file name on Windows
getAuthorizedKeysPath_Plain(plat) ==
    IF plat = "win32"
    THEN "C:\\ProgramData\\ssh\\authorized_keys"
    ELSE pathJoin(getSSHDirectory(plat), "authorized_keys")

getAuthorizedKeysPath(plat) ==
    IF plat = "win32"
    THEN "C:\\ProgramData\\ssh\\administrators_authorized_keys"
    ELSE pathJoin(getSSHDirectory(plat), "authorized_keys")

----------------------------------------------------------------------------
(* generateSSHDConfig(platform): the rendered sshd_config.  cfgPlatform is *)
(* the argument ("windows" or "unix"), plat is this.platform, which        *)
(* getSSHDirectory reads.                                                  *)

windowsSpecificConfig(cfgPlatform) ==
    IF cfgPlatform = "windows"
    THEN <<NL>> \o Words(<<"Match", "Group", "administrators">>) \o <<NL>>
         \o <<SP, SP, SP, SP>>
         \o Words(<<"AuthorizedKeysFile",
                    "__PROGRAMDATA__/ssh/administrators_authorized_keys">>)
         \o <<NL>>
    ELSE <<>>

\* the file the daemon opens for the argument of an AuthorizedKeysFile
\* directive: __PROGRAMDATA__ stands for the ProgramData folder, other
\* absolute paths are taken as they are
sshdFileOf(word) ==
    IF word = "__PROGRAMDATA__/ssh/administrators_authorized_keys"
    THEN "C:\\ProgramData\\ssh\\administrators_authorized_keys"
    ELSE word

sftpServerPath(cfgPlatform) ==
    IF cfgPlatform = "windows"
    THEN "C:\\Windows\\System32\\OpenSSH\\sftp-server.exe"
    ELSE "/usr/lib/openssh/sftp-server"

configAuthorizedKeysPath(cfgPlatform, plat) ==
    IF cfgPlatform = "windows"
    THEN "C:\\ProgramData\\ssh\\authorized_keys"
    ELSE pathJoin(getSSHDirectory(plat), "authorized_keys")

generateSSHDConfig(cfgPlatform, plat, port, user) ==
    Trim(Flatten(<<
        <<NL>>,
        Words(<<"#", "GitHub", "Actions", "SSH", "Server", "Configuration">>), <<NL>>,
        <<"Port", SP>>, port, <<NL>>,
        Words(<<"Protocol", "2">>), <<NL>>,
        <<"AuthorizedKeysFile", SP, "\"">>,
            <<configAuthorizedKeysPath(cfgPlatform, plat)>>, <<"\"", NL>>,
        Words(<<"AuthorizedKeysFile", ".ssh/authorized_keys">>), <<NL>>,
        <<NL>>,
        Words(<<"#", "Security", "settings">>), <<NL>>,
        Words(<<"PermitRootLogin", "no">>), <<NL>>,
        Words(<<"PasswordAuthentication", "no">>), <<NL>>,
        Words(<<"PubkeyAuthentication", "yes">>), <<NL>>,
        Words(<<"ChallengeResponseAuthentication", "no">>), <<NL>>,
        Words(<<"UsePAM", IF cfgPlatform = "windows" THEN "no" ELSE "yes">>), <<NL>>,
        <<NL>>,
        Words(<<"#", "Logging">>), <<NL>>,
        Words(<<"SyslogFacility", "AUTH">>), <<NL>>,
        Words(<<"LogLevel", "INFO">>), <<NL>>,
        <<NL>>,
        Words(<<"#", "Connection", "settings">>), <<NL>>,
        Words(<<"ClientAliveInterval", "60">>), <<NL>>,
        Words(<<"ClientAliveCountMax", "3">>), <<NL>>,
        Words(<<"MaxAuthTries", "6">>), <<NL>>,
        Words(<<"MaxSessions", "10">>), <<NL>>,
        <<NL>>,
        Words(<<"#", "Disable", "unused", "features">>), <<NL>>,
        Words(<<"X11Forwarding", "no">>), <<NL>>,
        Words(<<"AllowTcpForwarding", "yes">>), <<NL>>,
        Words(<<"GatewayPorts", "no">>), <<NL>>,
        Words(<<"PermitTunnel", "no">>), <<NL>>,
        <<NL>>,
        Words(<<"#", "SFTP", "Subsystem", "-", "Required", "for", "SCP",
                "and", "file", "transfers">>), <<NL>>,
        <<"Subsystem", SP, "sftp", SP, "\"">>,
            <<sftpServerPath(cfgPlatform)>>, <<"\"", NL>>,
        <<NL>>,
        Words(<<"#", "Allow", "specific", "user">>), <<NL>>,
        <<"AllowUsers", SP>>, user, <<NL>>,
        <<NL>>,
        windowsSpecificConfig(cfgPlatform), <<NL>>
    >>))

\* the lines of a document
Lines(doc) == Split(doc)
HasLine(doc, l) == \E i \in 1..Len(Lines(doc)) : Lines(doc)[i] = l
StartsWith(l, w) == l # <<>> /\ l[1] = w
LinesStarting(doc, w) ==
    {i \in 1..Len(Lines(doc)) : StartsWith(Lines(doc)[i], w)}

----------------------------------------------------------------------------
(* What a handler does is recorded as events: the commands it executes,    *)
(* the files it writes, the warnings and failures it reports.              *)

E(kind, what, arg, ok) == [kind |-> kind, what |-> what, arg |-> arg, ok |-> ok]

Exec(what, arg, ok) == E("exec", what, arg, ok)     \* exec.exec: ok iff exit code 0
Warning(what) == E("warning", what, <<>>, TRUE)     \* core.warning
SetFailed(what, msg) == E("setFailed", what, <<msg>>, TRUE)   \* core.setFailed
SetOutput(name, value) == E("setOutput", name, value, TRUE)   \* core.setOutput
WriteFile(path) == E("write", path, <<>>, TRUE)     \* fs.writeFileSync
Sleep(ms) == E("sleep", ms, <<>>, TRUE)             \* setTimeout
Call(name) == E("call", name, <<>>, TRUE)           \* a handler is entered
SaveState(name, value) == E("saveState", name, <<value>>, TRUE)  \* core.saveState

\* the outcome of a handler: the events, and the message of the error it
\* throws ("" when it returns)
Done(evs) == [evs |-> evs, err |-> ""]
Throws(evs, msg) == [evs |-> evs, err |-> msg]

\* fs.writeFileSync(path, content)
writeFileSync(fs, path, content) ==
    [q \in (DOMAIN fs) \cup {path} |-> IF q = path THEN content ELSE fs[q]]

existsSync(fs, path) == path \in DOMAIN fs

----------------------------------------------------------------------------
(* constructor *)

DefaultPort == <<"2", "2", "2", "2">>
CurrentUser == <<":current">>
osUsername == <<"runner">>

\* this.sshPort = core.getInput("port") || "2222"
ctorPort(rawPort) ==
    IF getInput(rawPort) = <<>> THEN DefaultPort ELSE getInput(rawPort)

\* const inputUser = core.getInput("ssh-user") || ":current"
ctorInputUser(rawUser) ==
    IF getInput(rawUser) = <<>> THEN CurrentUser ELSE getInput(rawUser)

\* os.userInfo() is called, and may throw, only for ":current"
ctorThrows(rawUser, infoOk) == ctorInputUser(rawUser) = CurrentUser /\ ~infoOk

\* ctorUser that takes the input as the user, the sentinel included
ctorUser_NoSentinel(rawUser) == ctorInputUser(rawUser)

ctorUser(rawUser) ==
    IF ctorInputUser(rawUser) = CurrentUser THEN osUsername
    ELSE ctorInputUser(rawUser)

----------------------------------------------------------------------------
(* installSSHServer *)

\* installWindowsSSH without its try/catch: a failed command is thrown on
installWindowsSSH_NoCatch ==
    LET server == "Add-WindowsCapability -Online -Name OpenSSH.Server"
        client == "Add-WindowsCapability -Online -Name OpenSSH.Client"
    IN  { Done(<<Exec(server, <<>>, TRUE), Exec(client, <<>>, TRUE)>>),
          Throws(<<Exec(server, <<>>, TRUE), Exec(client, <<>>, FALSE)>>,
                 "Add-WindowsCapability failed"),
          Throws(<<Exec(server, <<>>, FALSE)>>, "Add-WindowsCapability failed") }

installWindowsSSH ==
    LET server == "Add-WindowsCapability -Online -Name OpenSSH.Server"
        client == "Add-WindowsCapability -Online -Name OpenSSH.Client"
        warn == Warning("Windows SSH installation warning")
    IN  { Done(<<Exec(server, <<>>, TRUE), Exec(client, <<>>, TRUE)>>),
          Done(<<Exec(server, <<>>, TRUE), Exec(client, <<>>, FALSE), warn>>),
          Done(<<Exec(server, <<>>, FALSE), warn>>) }

installMacOSSSH ==
    { Done(<<Exec("which sshd", <<>>, TRUE)>>),
      Throws(<<Exec("which sshd", <<>>, FALSE)>>, "SSH daemon not found on macOS") }

\* what /etc/os-release may name, as the set of names found in its text
OsReleases == { {"ubuntu", "debian"}, {"fedora"}, {"alpine"}, {"arch"} }

\* the output of cat /etc/os-release, as the names it holds
stdoutOf(d) ==
    SelectSeq(<<"ubuntu", "debian", "fedora", "alpine", "arch">>,
              LAMBDA name : name \in d)

\* getLinuxDistro: the lower-cased output of cat, or "unknown" when cat fails
getLinuxDistro ==
    { [evs |-> <<Exec("cat /etc/os-release", stdoutOf(d), TRUE)>>, distro |-> d] :
          d \in OsReleases }
    \cup { [evs |-> <<Exec("cat /etc/os-release", <<>>, FALSE)>>,
            distro |-> {"unknown"}] }

\* distro.includes(name)
includes(distro, name) == name \in distro

\* a sequence of commands, stopped by the first one that fails: the runs of
\* cmds in which every command but possibly the last succeeds
Runs(cmds) ==
    { [i \in 1..n |-> Exec(cmds[i], <<>>, i < n)] : n \in 1..Len(cmds) }
    \cup { [i \in 1..Len(cmds) |-> Exec(cmds[i], <<>>, TRUE)] }

RunFailed(run) == run # <<>> /\ ~run[Len(run)].ok

packageCommands(distro) ==
    IF includes(distro, "ubuntu") \/ includes(distro, "debian")
    THEN <<"sudo apt-get update -q", "sudo apt-get install -y openssh-server">>
    ELSE IF includes(distro, "centos") \/ includes(distro, "rhel")
            \/ includes(distro, "fedora")
    THEN <<"sudo yum install -y openssh-server">>
    ELSE IF includes(distro, "alpine")
    THEN <<"sudo apk add openssh-server">>
    ELSE <<>>

\* installLinuxSSH that goes on to the package manager after a presence
\* check that succeeded
installLinuxSSH_NoReturn ==
    LET warn == Warning("Linux SSH installation warning")
    IN  UNION {
          { Done(d.evs \o <<Exec("which sshd", <<>>, found)>> \o run
                 \o (IF RunFailed(run) THEN <<warn>> ELSE <<>>)) :
              found \in BOOLEAN,
              run \in (IF packageCommands(d.distro) = <<>> THEN {<<>>}
                       ELSE Runs(packageCommands(d.distro))) }
          : d \in getLinuxDistro }

installLinuxSSH ==
    LET warn == Warning("Linux SSH installation warning")
    IN  UNION {
          { Done(d.evs \o <<Exec("which sshd", <<>>, TRUE)>>) }
          \cup
          (IF packageCommands(d.distro) = <<>>
           THEN { Done(d.evs \o <<Exec("which sshd", <<>>, FALSE)>>) }
           ELSE { Done(d.evs \o <<Exec("which sshd", <<>>, FALSE)>> \o run
                       \o (IF RunFailed(run) THEN <<warn>> ELSE <<>>)) :
                      run \in Runs(packageCommands(d.distro)) })
          : d \in getLinuxDistro }

installSSHServer(plat) ==
    IF plat = "win32" THEN installWindowsSSH
    ELSE IF plat = "darwin" THEN installMacOSSSH
    ELSE IF plat = "linux" THEN installLinuxSSH
    ELSE { Done(<<>>) }

----------------------------------------------------------------------------
(* configureSSHServer *)

\* generateServerKeys that warns about a failure without throwing it again
generateServerKeys_Swallow(plat) ==
    IF plat # "win32"
    THEN { Done(<<Exec("sudo ssh-keygen -A", <<>>, TRUE)>>),
           Done(<<Exec("sudo ssh-keygen -A", <<>>, FALSE),
                  Warning("Error generating server keys")>>) }
    ELSE { Done(<<>>) }

\* generateServerKeys that runs the key generation on every platform
generateServerKeys_AllPlatforms(plat) ==
    { Done(<<Exec("sudo ssh-keygen -A", <<>>, TRUE)>>),
      Throws(<<Exec("sudo ssh-keygen -A", <<>>, FALSE),
               Warning("Error generating server keys")>>,
             "ssh-keygen failed") }

\* generateServerKeys: ssh-keygen -A except on Windows; a failure is warned
\* about and thrown again
generateServerKeys(plat) ==
    IF plat # "win32"
    THEN { Done(<<Exec("sudo ssh-keygen -A", <<>>, TRUE)>>),
           Throws(<<Exec("sudo ssh-keygen -A", <<>>, FALSE),
                    Warning("Error generating server keys")>>,
                  "ssh-keygen failed") }
    ELSE { Done(<<>>) }

\* the file configureWindowsSSH / configureUnixSSH writes the document to
configWritePath(plat) ==
    IF plat = "win32" THEN pathJoin(WinSSHDir, "sshd_config")
    ELSE IF plat = "linux" THEN pathJoin(getSSHDirectory(plat), "sshd_config_custom")
    ELSE pathJoin(getSSHDirectory(plat), "sshd_config")

\* the argument configureWindowsSSH / configureUnixSSH give generateSSHDConfig
configPlatform(plat) == IF plat = "win32" THEN "windows" ELSE "unix"

\* the outcomes of configureSSHServer: the keys are generated, then the
\* document is rendered and written (the directories, which mkdirSync
\* creates when absent, are not part of the state)
configureSSHServer(plat, port, user, fs) ==
    { IF k.err # ""
      THEN [evs |-> k.evs, err |-> k.err, files |-> fs, doc |-> <<>>]
      ELSE LET doc == generateSSHDConfig(configPlatform(plat), plat, port, user)
           IN  [evs |-> k.evs \o <<WriteFile(configWritePath(plat))>>,
                err |-> "",
                files |-> writeFileSync(fs, configWritePath(plat), doc),
                doc |-> doc]
      : k \in generateServerKeys(plat) }

----------------------------------------------------------------------------
(* setupAuthorizedKeys *)

\* core.getBooleanInput: the YAML 1.2 core schema's spellings, else a TypeError
TrueValues == {"true", "True", "TRUE"}
FalseValues == {"false", "False", "FALSE"}
getBooleanInputThrows(raw) == raw \notin TrueValues \cup FalseValues
getBooleanInput(raw) == raw \in TrueValues

\* nonBlankLines that drops the empty lines only
nonBlankLines_EmptyOnly(text) == SelectSeq(Split(text), LAMBDA l : l # <<>>)

\* text.split("\n").filter(key => key.trim())
nonBlankLines(text) == SelectSeq(Split(text), LAMBDA l : Trim(l) # <<>>)

\* the keys of the authorized-keys input
literalKeys(publicKeys) ==
    IF publicKeys # <<>> THEN nonBlankLines(publicKeys) ELSE <<>>

\* what the request to https://github.com/<username>.keys may end in
KeyAlphabet == {"kA", NL}
BodyAlphabet == {"kR", NL}
FetchOutcomes ==
    { [status |-> 200, body |-> b] : b \in SeqsUpTo(BodyAlphabet, MaxBodyLen) }
    \cup { [status |-> 404, body |-> <<>>], [status |-> 0, body |-> <<>>] }

\* fetchGitHubKeys: resolves with the keys of a 200 response; rejects for any
\* other status and for a transport error (status 0 here)
fetchRejects(o) == o.status # 200
fetchGitHubKeys(o) == nonBlankLines(Trim(o.body))

\* whether the fetch is made at all
fetchRequested(useActorsKeys, actor) == useActorsKeys /\ actor # ""

\* fetchStep without its try/catch: a rejected fetch is thrown on
fetchStep_Rethrow(actor, requested, o) ==
    IF ~requested THEN [keys |-> <<>>, evs |-> <<>>, err |-> ""]
    ELSE IF o.status # 200
    THEN [keys |-> <<>>, evs |-> <<E("fetch", actor, <<>>, FALSE)>>,
          err |-> "GitHub API returned an error"]
    ELSE [keys |-> nonBlankLines(Trim(o.body)),
          evs |-> <<E("fetch", actor, o.body, TRUE)>>,
          err |-> ""]

\* the fetch of the actor's keys, when requested: its keys are added, or its
\* failure is warned about
fetchStep(actor, requested, o) ==
    IF ~requested THEN [keys |-> <<>>, evs |-> <<>>, err |-> ""]
    ELSE IF fetchRejects(o)
    THEN [keys |-> <<>>,
          evs |-> <<E("fetch", actor, <<>>, FALSE),
                    Warning("Could not fetch GitHub keys")>>,
          err |-> ""]
    ELSE [keys |-> fetchGitHubKeys(o),
          evs |-> <<E("fetch", actor, o.body, TRUE)>>,
          err |-> ""]

\* noKeys with the emptiness test lost: an empty key set is written out
noKeys_Never(allKeys) == FALSE

\* allKeys.length === 0
noKeys(allKeys) == Len(allKeys) = 0

NoKeysMessage == "No public keys provided"

\* authorizedKeysContent
authorizedKeysContent(allKeys) == Join(allKeys) \o <<NL>>

\* allKeys with the fetched keys put first
allKeysOf_RemoteFirst(literal, remote) == remote \o literal

\* allKeys: the keys of the input are pushed first, the fetched keys after
allKeysOf(literal, remote) == literal \o remote

\* setupAuthorizedKeys, when the request for the actor's keys may end in any
\* of `responses`
setupAuthorizedKeysWith(plat, rawKeys, rawUseActor, actor, fs, responses) ==
    IF getBooleanInputThrows(rawUseActor)
    THEN { [evs |-> <<>>, err |-> "Input does not meet YAML 1.2 Core Schema",
            files |-> fs] }
    ELSE LET publicKeys == getInput(rawKeys)
             requested == fetchRequested(getBooleanInput(rawUseActor), actor)
             outcomes == IF requested THEN responses
                         ELSE {[status |-> 0, body |-> <<>>]}
         IN  { LET f == fetchStep(actor, requested, o)
                   allKeys == allKeysOf(literalKeys(publicKeys), f.keys)
               IN  IF f.err # ""
                   THEN [evs |-> f.evs, err |-> f.err, files |-> fs]
                   ELSE IF noKeys(allKeys)
                   THEN [evs |-> f.evs, err |-> NoKeysMessage, files |-> fs]
                   ELSE [evs |-> f.evs \o <<WriteFile(getAuthorizedKeysPath(plat))>>,
                         err |-> "",
                         files |-> writeFileSync(fs, getAuthorizedKeysPath(plat),
                                                 authorizedKeysContent(allKeys))]
               : o \in outcomes }

setupAuthorizedKeys(plat, rawKeys, rawUseActor, actor, fs) ==
    setupAuthorizedKeysWith(plat, rawKeys, rawUseActor, actor, fs, FetchOutcomes)

----------------------------------------------------------------------------
(* startSSHServer, verifySSHServer *)

startWindowsSSH ==
    { Done(<<Exec("powershell Start-Service sshd", <<>>, TRUE)>>),
      Throws(<<Exec("powershell Start-Service sshd", <<>>, FALSE)>>,
             "Start-Service failed") }

\* nohup /usr/sbin/sshd -f <configPath> -p <port> > /tmp/sshd.log 2>&1 &
sshdCommand(configPath, port) == <<"-f", SP, configPath, SP, "-p", SP>> \o port

launchSSHD(configPath, port) ==
    { Done(<<Exec("sshd", sshdCommand(configPath, port), TRUE)>>),
      Throws(<<Exec("sshd", sshdCommand(configPath, port), FALSE)>>, "sshd failed") }

startMacOSSSH(plat, port) ==
    launchSSHD(pathJoin(getSSHDirectory(plat), "sshd_config"), port)

\* startLinuxSSH that starts the daemon on the system configuration
startLinuxSSH_SystemConfig(plat, port) ==
    { [evs |-> m \o l.evs, err |-> l.err] :
        m \in { <<Exec("sudo mkdir -p /run/sshd", <<>>, TRUE)>>,
                <<Exec("sudo mkdir -p /run/sshd", <<>>, FALSE),
                  Warning("Could not create privilege separation directory")>> },
        l \in launchSSHD("/etc/ssh/sshd_config", port) }

\* a failure to create /run/sshd is warned about only
startLinuxSSH(plat, port) ==
    { [evs |-> m \o l.evs, err |-> l.err] :
        m \in { <<Exec("sudo mkdir -p /run/sshd", <<>>, TRUE)>>,
                <<Exec("sudo mkdir -p /run/sshd", <<>>, FALSE),
                  Warning("Could not create privilege separation directory")>> },
        l \in launchSSHD(pathJoin(getSSHDirectory(plat), "sshd_config_custom"), port) }

\* startSSHServer that goes on to the verification without waiting
startSSHServer_NoDelay(plat, port) ==
    IF plat = "win32" THEN startWindowsSSH
    ELSE IF plat = "darwin" THEN startMacOSSSH(plat, port)
    ELSE IF plat = "linux" THEN startLinuxSSH(plat, port)
    ELSE { Done(<<>>) }

SettleDelay == "2000"

\* startSSHServer up to its call of verifySSHServer: the start command of
\* the platform, then the wait for the server to start
startSSHServer(plat, port) ==
    LET started == IF plat = "win32" THEN startWindowsSSH
                   ELSE IF plat = "darwin" THEN startMacOSSSH(plat, port)
                   ELSE IF plat = "linux" THEN startLinuxSSH(plat, port)
                   ELSE { Done(<<>>) }
    IN  { IF r.err # "" THEN r ELSE Done(r.evs \o <<Sleep(SettleDelay)>>) :
            r \in started }

VerifyMessage == "SSH server verification failed"

probeCommand(plat) ==
    IF plat = "win32" THEN "powershell Test-NetConnection -ComputerName localhost -Port"
    ELSE "nc -z localhost"

\* verifySSHServer that probes the default port whatever port is configured
verifySSHServer_DefaultPort(plat, port) ==
    { Done(<<Exec(probeCommand(plat), DefaultPort, TRUE)>>),
      Throws(<<Exec(probeCommand(plat), DefaultPort, FALSE)>>, VerifyMessage) }

verifySSHServer(plat, port) ==
    { Done(<<Exec(probeCommand(plat), port, TRUE)>>),
      Throws(<<Exec(probeCommand(plat), port, FALSE)>>, VerifyMessage) }

----------------------------------------------------------------------------
(* exportConnectionInfo *)

KeyTypes == <<"rsa", "ecdsa", "ed25519">>

\* the content of ssh_host_<type>_key.pub, trimmed
hostKeyContent(type) ==
    CASE type = "rsa" -> <<"ssh-rsa", SP, "HOSTKEY">>
      [] type = "ecdsa" -> <<"ecdsa-sha2-nistp256", SP, "HOSTKEY">>
      [] type = "ed25519" -> <<"ssh-ed25519", SP, "HOSTKEY">>

\* getServerPublicKeys: the key files among the three types that exist
getServerPublicKeys(present) ==
    LET types == SelectSeq(KeyTypes, LAMBDA t : t \in present)
    IN  [i \in 1..Len(types) |-> hostKeyContent(types[i])]

\* exportHostKeysToOutput that leaves the output unset when it warns
exportHostKeysToOutput_Unset(present, readOk) ==
    IF ~readOk
    THEN <<Warning("Failed to export SSH host keys to output")>>
    ELSE IF Len(getServerPublicKeys(present)) = 0
    THEN <<Warning("No server public keys found to export")>>
    ELSE <<SetOutput("host-keys", Join(getServerPublicKeys(present)))>>

\* exportHostKeysToOutput, when `present` are the public key files found and
\* readOk tells whether reading them succeeded
exportHostKeysToOutput(present, readOk) ==
    IF ~readOk
    THEN <<Warning("Failed to export SSH host keys to output"),
           SetOutput("host-keys", <<>>)>>
    ELSE IF Len(getServerPublicKeys(present)) = 0
    THEN <<Warning("No server public keys found to export"),
           SetOutput("host-keys", <<>>)>>
    ELSE <<SetOutput("host-keys", Join(getServerPublicKeys(present)))>>

Hostname == <<"localhost">>

\* the look for the public key files (existsSync, readFileSync): the types
\* read, or that reading raised
ReadHostKeys(present, readOk) ==
    E("read", "host public keys",
      IF readOk THEN SelectSeq(KeyTypes, LAMBDA t : t \in present) ELSE <<>>,
      readOk)

exportConnectionInfo(port, user) ==
    { Done(<<SetOutput("hostname", Hostname), SetOutput("port", port),
             SetOutput("username", user), ReadHostKeys(present, readOk)>>
           \o exportHostKeysToOutput(present, readOk)) :
        present \in SUBSET {"rsa", "ecdsa", "ed25519"}, readOk \in BOOLEAN }

\* the outputs after the setOutput calls among evs
RECURSIVE applyOutputs(_, _)
applyOutputs(out, evs) ==
    IF evs = <<>> THEN out
    ELSE applyOutputs(
             IF Head(evs).kind = "setOutput"
             THEN writeFileSync(out, Head(evs).what, Head(evs).arg) ELSE out,
             Tail(evs))

----------------------------------------------------------------------------
(* cleanup *)

\* sudo pkill -f "sshd.*-p <port>"
pkillPattern(port) == <<"sshd.*-p", SP>> \o port

\* the command line of the daemon that launchSSHD starts
daemonCommandLine(configPath, port) ==
    <<"/usr/sbin/sshd", SP>> \o sshdCommand(configPath, port)

\* the words of a command line in which the text sshd occurs
mentionsSshd(word) ==
    word \in { "/usr/sbin/sshd",
               "/home/runner/.ssh/sshd_config_custom",
               "/Users/runner/.ssh/sshd_config" }

\* pkill -f <pattern>: the pattern is a regular expression searched for in
\* the whole command line, so "sshd.*-p <port>" matches where sshd occurs
\* and, anywhere after it, "-p <port>" begins
pkillMatches(pattern, commandLine) ==
    \E i \in 1..Len(commandLine), j \in 1..Len(commandLine) :
        /\ i < j
        /\ mentionsSshd(commandLine[i])
        /\ commandLine[j] = "-p"
        /\ j + Len(pattern) - 1 <= Len(commandLine)
        /\ SubSeq(commandLine, j + 1, j + Len(pattern) - 1) = Tail(pattern)

\* cleanup that stops the daemon of the default port whatever is configured
cleanup_DefaultPort(plat, port) ==
    IF plat = "win32"
    THEN { Done(<<Exec("powershell Stop-Service sshd -Force", <<>>, TRUE)>>),
           Done(<<Exec("powershell Stop-Service sshd -Force", <<>>, FALSE),
                  Warning("SSH cleanup failed")>>) }
    ELSE { Done(<<Exec("sudo pkill -f", pkillPattern(DefaultPort), TRUE)>>),
           Done(<<Exec("sudo pkill -f", pkillPattern(DefaultPort), FALSE),
                  Warning("Could not kill SSH processes")>>) }

\* the try block of cleanup: every failure ends as a warning
cleanup(plat, port) ==
    IF plat = "win32"
    THEN { Done(<<Exec("powershell Stop-Service sshd -Force", <<>>, TRUE)>>),
           Done(<<Exec("powershell Stop-Service sshd -Force", <<>>, FALSE),
                  Warning("SSH cleanup failed")>>) }
    ELSE { Done(<<Exec("sudo pkill -f", pkillPattern(port), TRUE)>>),
           Done(<<Exec("sudo pkill -f", pkillPattern(port), FALSE),
                  Warning("Could not kill SSH processes")>>) }

----------------------------------------------------------------------------
(* The job: the runner invokes the action in its main phase and again in   *)
(* its post phase, handing the post phase the state the main phase saved.  *)

PortInputs == { <<>>, <<"2", "2">> }
UserInputs == { <<>>, <<"alice">> }
BoolInputs == { "true", "false", "yes" }
Actors == { "", "octocat" }

NoLog == [main |-> <<>>, post |-> <<>>]

Init ==
    /\ platform \in Platforms
    /\ inPort \in PortInputs
    /\ inUser \in UserInputs
    /\ inKeys \in SeqsUpTo(KeyAlphabet, MaxKeysLen)
    /\ inUseActor \in BoolInputs
    /\ githubActor \in Actors
    \* os.userInfo() is consulted for ":current" only
    /\ userInfoOk \in (IF ctorInputUser(inUser) = CurrentUser
                        THEN BOOLEAN ELSE {TRUE})
    /\ inServerKey = <<>>
    /\ savedState = ""
    /\ phase = "main"
    /\ pc = "idle"
    /\ sshPort = <<>>
    /\ sshUser = <<>>
    /\ files = <<>>
    /\ outputs = <<>>
    /\ log = NoLog
    /\ rendered = <<>>

inputVars == <<platform, inPort, inUser, inKeys, inUseActor, githubActor,
               userInfoOk, inServerKey>>

\* IsPost with the test turned around
IsPost_Inverted(state) == state = ""

\* const IsPost = !!core.getState("isPost")
IsPost(state) == state # ""

SetupFailed == "SSH server setup failed"
ActionFailed == "Action failed with error"

Emit(evs) == log' = [log EXCEPT ![phase] = @ \o evs]

\* the process of the invocation exits; the runner moves to the next phase
EndInvocation ==
    /\ pc' = "idle"
    /\ phase' = IF phase = "main" THEN "post" ELSE "done"
    /\ sshPort' = <<>>
    /\ sshUser' = <<>>

\* RunStep whose catch marks the run failed and lets run go on to `next`
RunStep_GoOn(name, r, next) ==
    /\ Emit(<<Call(name)>> \o r.evs \o
             (IF r.err = "" THEN <<>> ELSE <<SetFailed(SetupFailed, r.err)>>))
    /\ pc' = next
    /\ UNCHANGED <<phase, sshPort, sshUser>>

\* one awaited step of run(): it returns and run goes on to `next`, or it
\* throws and run's catch marks the run failed
RunStep(name, r, next) ==
    IF r.err = ""
    THEN /\ Emit(<<Call(name)>> \o r.evs)
         /\ pc' = next
         /\ UNCHANGED <<phase, sshPort, sshUser>>
    ELSE /\ Emit(<<Call(name)>> \o r.evs \o <<SetFailed(SetupFailed, r.err)>>)
         /\ EndInvocation

\* SetupEntry that saves the state only once the manager is constructed
SetupEntry_SaveAfterConstruct ==
    /\ pc = "idle" /\ phase \in {"main", "post"}
    /\ savedState = ""
    /\ IF ctorThrows(inUser, userInfoOk)
       THEN /\ Emit(<<SetFailed("Action failed with error", "os.userInfo failed")>>)
            /\ pc' = "idle"
            /\ phase' = IF phase = "main" THEN "post" ELSE "done"
            /\ UNCHANGED <<savedState, sshPort, sshUser>>
       ELSE /\ savedState' = "true"
            /\ Emit(<<SaveState("isPost", "true"), Call("run")>>)
            /\ sshPort' = ctorPort(inPort)
            /\ sshUser' = ctorUser(inUser)
            /\ pc' = "install"
            /\ UNCHANGED phase
    /\ UNCHANGED <<inputVars, files, outputs, rendered>>

\* the entry, not IsPost: the state is saved, the manager constructed, run called
SetupEntry ==
    /\ pc = "idle" /\ phase \in {"main", "post"}
    /\ ~IsPost(savedState)
    /\ savedState' = "true"
    /\ IF ctorThrows(inUser, userInfoOk)
       THEN /\ Emit(<<SaveState("isPost", "true"),
                      SetFailed(ActionFailed, "os.userInfo failed")>>)
            /\ EndInvocation
       ELSE /\ Emit(<<SaveState("isPost", "true"), Call("run")>>)
            /\ sshPort' = ctorPort(inPort)
            /\ sshUser' = ctorUser(inUser)
            /\ pc' = "install"
            /\ UNCHANGED phase
    /\ UNCHANGED <<inputVars, files, outputs, rendered>>

\* the entry, IsPost: cleanup is called and constructs its manager
CleanupEntry ==
    /\ pc = "idle" /\ phase \in {"main", "post"}
    /\ IsPost(savedState)
    /\ IF ctorThrows(inUser, userInfoOk)
       THEN /\ Emit(<<Call("cleanup"),
                      SetFailed(ActionFailed, "os.userInfo failed")>>)
            /\ EndInvocation
       ELSE /\ Emit(<<Call("cleanup")>>)
            /\ sshPort' = ctorPort(inPort)
            /\ sshUser' = ctorUser(inUser)
            /\ pc' = "cleanup"
            /\ UNCHANGED phase
    /\ UNCHANGED <<inputVars, savedState, files, outputs, rendered>>

Install ==
    /\ pc = "install"
    /\ \E r \in installSSHServer(platform) : RunStep("installSSHServer", r, "configure")
    /\ UNCHANGED <<inputVars, savedState, files, outputs, rendered>>

Configure ==
    /\ pc = "configure"
    /\ \E r \in configureSSHServer(platform, sshPort, sshUser, files) :
          /\ RunStep("configureSSHServer", r, "authorize")
          /\ files' = r.files
          /\ rendered' = IF r.err = "" THEN r.doc ELSE rendered
    /\ UNCHANGED <<inputVars, savedState, outputs>>

Authorize ==
    /\ pc = "authorize"
    /\ \E r \in setupAuthorizedKeys(platform, inKeys, inUseActor, githubActor, files) :
          /\ RunStep("setupAuthorizedKeys", r, "start")
          /\ files' = r.files
    /\ UNCHANGED <<inputVars, savedState, outputs, rendered>>

Start ==
    /\ pc = "start"
    /\ \E r \in startSSHServer(platform, sshPort) : RunStep("startSSHServer", r, "verify")
    /\ UNCHANGED <<inputVars, savedState, files, outputs, rendered>>

Verify ==
    /\ pc = "verify"
    /\ \E r \in verifySSHServer(platform, sshPort) : RunStep("verifySSHServer", r, "export")
    /\ UNCHANGED <<inputVars, savedState, files, outputs, rendered>>

Export ==
    /\ pc = "export"
    /\ \E r \in exportConnectionInfo(sshPort, sshUser) :
          /\ Emit(<<Call("exportConnectionInfo")>> \o r.evs)
          /\ outputs' = applyOutputs(outputs, r.evs)
    /\ EndInvocation
    /\ UNCHANGED <<inputVars, savedState, files, rendered>>

Cleanup ==
    /\ pc = "cleanup"
    /\ \E r \in cleanup(platform, sshPort) : Emit(r.evs)
    /\ EndInvocation
    /\ UNCHANGED <<inputVars, savedState, files, outputs, rendered>>

Next ==
    \/ SetupEntry
    \/ CleanupEntry
    \/ Install
    \/ Configure
    \/ Authorize
    \/ Start
    \/ Verify
    \/ Export
    \/ Cleanup

Spec == Init /\ [][Next]_vars

----------------------------------------------------------------------------
(* The rendering alone: a manager is constructed from the port and         *)
(* ssh-user inputs and generateSSHDConfig is applied for its platform.     *)

UserAlphabet == {"u", SP, NL, "AllowUsers"}
RenderPorts == PortInputs \cup { <<"2", NL, "AllowUsers">> }

InitRender ==
    /\ platform \in Platforms
    /\ inPort \in RenderPorts
    /\ inUser \in SeqsUpTo(UserAlphabet, MaxUserLen)
    /\ inKeys = <<>>
    /\ inUseActor = "false"
    /\ githubActor = ""
    /\ userInfoOk = TRUE
    /\ inServerKey = <<>>
    /\ savedState = ""
    /\ phase = "main"
    /\ pc = "new"
    /\ sshPort = <<>>
    /\ sshUser = <<>>
    /\ files = <<>>
    /\ outputs = <<>>
    /\ log = NoLog
    /\ rendered = <<>>

Construct ==
    /\ pc = "new"
    /\ sshPort' = ctorPort(inPort)
    /\ sshUser' = ctorUser(inUser)
    /\ pc' = "constructed"
    /\ UNCHANGED <<inputVars, savedState, phase, files, outputs, log, rendered>>

Render ==
    /\ pc = "constructed"
    /\ rendered' = generateSSHDConfig(configPlatform(platform), platform,
                                      sshPort, sshUser)
    /\ pc' = "rendered"
    /\ UNCHANGED <<inputVars, savedState, phase, sshPort, sshUser, files,
                   outputs, log>>

NextRender ==
    \/ Construct
    \/ Render

SpecRender == InitRender /\ [][NextRender]_vars

----------------------------------------------------------------------------
(* The job on a host that holds files from before: the file the Configure  *)
(* step writes and the authorized-keys file exist already, with            *)
(* their own content; at most one literal key is given and no fetch is     *)
(* asked for.                                                              *)

OldConfig == <<"#", SP, "original", NL>>
OldKeys == <<"kOld", NL>>

\* the files setup writes to, as they were before the job
PreSetupFiles(plat) ==
    writeFileSync(writeFileSync(<<>>, configWritePath(plat), OldConfig),
                  getAuthorizedKeysPath(plat), OldKeys)

HostUsers == UserInputs \cup { CurrentUser }
HostKeys == { <<>>, <<"kA">> }
ServerKeys == { <<>>, <<"PRIVATE-KEY">> }

InitHost ==
    /\ platform \in Platforms
    /\ inPort \in PortInputs
    /\ inUser \in HostUsers
    /\ inKeys \in HostKeys
    /\ inUseActor = "false"
    /\ githubActor = "octocat"
    /\ userInfoOk \in BOOLEAN
    /\ inServerKey \in ServerKeys
    /\ savedState = ""
    /\ phase = "main"
    /\ pc = "idle"
    /\ sshPort = <<>>
    /\ sshUser = <<>>
    /\ files = PreSetupFiles(platform)
    /\ outputs = <<>>
    /\ log = NoLog
    /\ rendered = <<>>

SpecHost == InitHost /\ [][Next]_vars

----------------------------------------------------------------------------
(* The Authorize step alone, for key inputs and responses of several       *)
(* lines: the pass has reached setupAuthorizedKeys.                        *)

LiteralAlphabet == {"kA", "kB", SP, NL}
RemoteAlphabet == {"kR", "kS", NL}

KeyResponses ==
    { [status |-> 200, body |-> b] : b \in SeqsUpTo(RemoteAlphabet, MaxRemoteLen) }
    \cup { [status |-> 404, body |-> <<>>], [status |-> 0, body |-> <<>>] }

InitKeys ==
    /\ platform \in Platforms
    /\ inPort = <<>>
    /\ inUser = <<"alice">>
    /\ \/ /\ inUseActor = "false"
          /\ inKeys \in SeqsUpTo(LiteralAlphabet, MaxLiteralLen)
       \/ /\ inUseActor = "true"
          /\ inKeys \in SeqsUpTo(LiteralAlphabet, MaxFetchedLiteralLen)
    /\ githubActor = "octocat"
    /\ userInfoOk = TRUE
    /\ inServerKey = <<>>
    /\ savedState = "true"
    /\ phase = "main"
    /\ pc = "authorize"
    /\ sshPort = ctorPort(inPort)
    /\ sshUser = ctorUser(inUser)
    /\ files = <<>>
    /\ outputs = <<>>
    /\ log = NoLog
    /\ rendered = <<>>

AuthorizeKeys ==
    /\ pc = "authorize"
    /\ \E r \in setupAuthorizedKeysWith(platform, inKeys, inUseActor, githubActor,
                                        files, KeyResponses) :
          /\ RunStep("setupAuthorizedKeys", r, "start")
          /\ files' = r.files
    /\ UNCHANGED <<inputVars, savedState, outputs, rendered>>

NextKeys == AuthorizeKeys

SpecKeys == InitKeys /\ [][NextKeys]_vars

----------------------------------------------------------------------------
(* Claims. *)

\* C1: for every platform and every value of the port and ssh-user options,
\* the document returned by generateSSHDConfig contains the line
\* "PasswordAuthentication no" and exactly one line that starts with
\* AllowUsers, and that line is "AllowUsers <configured user>".
C1_SecurityLines ==
    pc = "rendered" =>
        /\ HasLine(rendered, Words(<<"PasswordAuthentication", "no">>))
        /\ Cardinality(LinesStarting(rendered, "AllowUsers")) = 1
        /\ \A i \in LinesStarting(rendered, "AllowUsers") :
              Lines(rendered)[i] = <<"AllowUsers", SP>> \o sshUser


----------------------------------------------------------------------------
(* What the log of a phase shows. *)

Events(ph, kind) == {i \in 1..Len(log[ph]) : log[ph][i].kind = kind}
Called(ph, name) == \E i \in Events(ph, "call") : log[ph][i].what = name
Wrote(ph, path) == \E i \in Events(ph, "write") : log[ph][i].what = path
Warned(ph, what) == \E i \in Events(ph, "warning") : log[ph][i].what = what
Failed(ph) == Events(ph, "setFailed") # {}
FailedWith(ph, what, msg) ==
    \E i \in Events(ph, "setFailed") :
        log[ph][i].what = what /\ log[ph][i].arg = <<msg>>
Issued(ph, what) == {i \in Events(ph, "exec") : log[ph][i].what = what}
IssuedFailing(ph, what) == {i \in Issued(ph, what) : ~log[ph][i].ok}

\* the commands that start the daemon, and the issues of them
StartCommands == {"powershell Start-Service sshd", "sshd"}
StartIssued(ph) == UNION {Issued(ph, c) : c \in StartCommands}
ProbeIssued(ph) == Issued(ph, probeCommand(platform))

FetchFailed(ph) == \E i \in Events(ph, "fetch") : ~log[ph][i].ok

\* the setup pass is over
PassOver == phase # "main"

\* C2: when the literal authorized-keys input yields no non-blank line and
\* the remote fetch is disabled or fails, setupAuthorizedKeys fails with the
\* no-authorized-keys error, the run is marked failed, no authorized-keys
\* file is written, and no daemon start command is issued in that pass.
C2_NoKeysFails ==
    ( /\ Called("main", "setupAuthorizedKeys")
      /\ literalKeys(getInput(inKeys)) = <<>>
      /\ ~getBooleanInputThrows(inUseActor)
      /\ \/ ~fetchRequested(getBooleanInput(inUseActor), githubActor)
         \/ FetchFailed("main") )
    => /\ FailedWith("main", SetupFailed, NoKeysMessage)
       /\ PassOver
       /\ ~Wrote("main", getAuthorizedKeysPath(platform))
       /\ ~existsSync(files, getAuthorizedKeysPath(platform))
       /\ StartIssued("main") = {}
       /\ ~Called("main", "startSSHServer")

C2_Witness ==
    /\ Called("main", "setupAuthorizedKeys")
    /\ literalKeys(getInput(inKeys)) = <<>>
    /\ FetchFailed("main")
    /\ FailedWith("main", SetupFailed, NoKeysMessage)

\* C3: the "setup was attempted" flag is recorded unconditionally: whatever
\* step of the setup invocation fails, the construction of the manager
\* included, the flag is persisted by then, and the next invocation takes
\* the teardown path.
C3_FlagRecorded ==
    /\ (pc # "idle" \/ log["main"] # <<>> \/ phase # "main") => IsPost(savedState)
    /\ (phase = "post" /\ pc # "idle") => pc = "cleanup"
    /\ log["post"] # <<>> =>
          /\ log["post"][1] = Call("cleanup")
          /\ Events("post", "saveState") = {}
          /\ ~Called("post", "run")

C3_Witness ==
    /\ FailedWith("main", ActionFailed, "os.userInfo failed")
    /\ Called("post", "cleanup")

\* C4: each invocation runs exactly one of the two paths, chosen by the
\* persisted flag: setup when it is unset, teardown when it is set; the
\* teardown never runs before a setup attempt recorded the flag, and over
\* the job's invocations it runs exactly once.
SetupRuns(ph) == Cardinality(Events(ph, "saveState"))
TeardownRuns(ph) == Cardinality({i \in Events(ph, "call") : log[ph][i].what = "cleanup"})

C4_OnePathPerInvocation ==
    /\ \A ph \in {"main", "post"} :
          /\ SetupRuns(ph) + TeardownRuns(ph) <= 1
          /\ (log[ph] # <<>>) => SetupRuns(ph) + TeardownRuns(ph) = 1
          /\ TeardownRuns(ph) = 1 => (log[ph][1] = Call("cleanup") /\ IsPost(savedState))
          /\ SetupRuns(ph) = 1 => log[ph][1] = SaveState("isPost", "true")
    /\ TeardownRuns("main") = 0
    /\ TeardownRuns("post") = 1 => SetupRuns("main") = 1
    /\ phase = "done" => TeardownRuns("main") + TeardownRuns("post") = 1

C4_Witness ==
    /\ phase = "done"
    /\ SetupRuns("main") = 1
    /\ TeardownRuns("post") = 1
    /\ Failed("main")

\* C5: the teardown invocation never marks the run failed: every error on
\* the teardown path, the construction of the manager included, ends as a
\* warning only.
C5_TeardownNeverFails ==
    \A ph \in {"main", "post"} : Called(ph, "cleanup") => ~Failed(ph)


\* C6: each of the three fatal conditions (host key generation failure,
\* empty authorized-key set, port-probe failure) aborts the remaining steps
\* of the setup pass and marks the run failed with the causing message:
\* after a key-generation failure no configuration file and no
\* authorized-keys file is written and no daemon is started; after a
\* verification failure no connection info is exported.
KeygenFailed == IssuedFailing("main", "sudo ssh-keygen -A") # {}
ProbeFailed == IssuedFailing("main", probeCommand(platform)) # {}
NoKeysResolved ==
    /\ Called("main", "setupAuthorizedKeys")
    /\ ~getBooleanInputThrows(inUseActor)
    /\ ~Wrote("main", getAuthorizedKeysPath(platform))

Aborted(msg) ==
    /\ PassOver
    /\ FailedWith("main", SetupFailed, msg)
    /\ log["main"][Len(log["main"])] = SetFailed(SetupFailed, msg)
    /\ Events("main", "setOutput") = {}
    /\ outputs = <<>>

C6_FatalConditionsAbort ==
    /\ KeygenFailed =>
          /\ Aborted("ssh-keygen failed")
          /\ Events("main", "write") = {}
          /\ files = <<>>
          /\ StartIssued("main") = {}
          /\ ~Called("main", "setupAuthorizedKeys")
    /\ NoKeysResolved =>
          /\ Aborted(NoKeysMessage)
          /\ StartIssued("main") = {}
          /\ ~Called("main", "startSSHServer")
    /\ ProbeFailed =>
          /\ Aborted(VerifyMessage)
          /\ ~Called("main", "exportConnectionInfo")

C6_Witness ==
    /\ KeygenFailed
    /\ FailedWith("main", SetupFailed, "ssh-keygen failed")
    /\ phase = "done"

\* C7: on every platform a failure of any command of the Install step is
\* logged as a warning and is non-fatal: the pass continues to Configure
\* and the run is not marked failed because of it.
InstallCommands ==
    { "Add-WindowsCapability -Online -Name OpenSSH.Server",
      "Add-WindowsCapability -Online -Name OpenSSH.Client",
      "sudo apt-get update -q", "sudo apt-get install -y openssh-server",
      "sudo yum install -y openssh-server", "sudo apk add openssh-server" }
PresenceChecks == { "which sshd", "cat /etc/os-release" }
InstallWarnings ==
    { "Windows SSH installation warning", "Linux SSH installation warning" }

FailedAmong(cmds) == \E c \in cmds : IssuedFailing("main", c) # {}
InstallWarned == \E w \in InstallWarnings : Warned("main", w)
InstallOver == Called("main", "installSSHServer")
ReachedConfigure == pc = "configure" \/ Called("main", "configureSSHServer")
MacOSMessage == "SSH daemon not found on macOS"

C9_FetchFailureFails ==
    (FetchFailed("main") /\ PassOver) => Failed("main")

\* C10: in every setup pass the steps occur only in the order Install,
\* Configure, Authorize, Start, Verify, Export, each beginning only after
\* the previous one completed: the daemon start command is never issued
\* before both the configuration file and the authorized-keys file have
\* been written, and the port probe is never issued before the start
\* command has returned and the settling delay has elapsed.
StepOrder ==
    << "run", "installSSHServer", "configureSSHServer", "setupAuthorizedKeys",
       "startSSHServer", "verifySSHServer", "exportConnectionInfo" >>

\* the handlers entered in the setup pass, in order
CallsOf(ph) ==
    LET calls == SelectSeq(log[ph], LAMBDA e : e.kind = "call")
    IN  [i \in 1..Len(calls) |-> calls[i].what]

Before(ph, kind, what, i) ==
    \E j \in 1..(i - 1) : log[ph][j].kind = kind /\ log[ph][j].what = what

C10_StepOrder ==
    /\ Len(CallsOf("main")) <= Len(StepOrder)
    /\ CallsOf("main") = SubSeq(StepOrder, 1, Len(CallsOf("main")))
    /\ \A i \in StartIssued("main") :
          /\ Before("main", "write", configWritePath(platform), i)
          /\ Before("main", "write", getAuthorizedKeysPath(platform), i)
    /\ \A i \in ProbeIssued("main") :
          \E j \in StartIssued("main"), k \in Events("main", "sleep") :
              /\ j < k /\ k < i
              /\ log["main"][j].ok
              /\ log["main"][k].what = SettleDelay

C10_Witness ==
    /\ ProbeIssued("main") # {}
    /\ Called("main", "exportConnectionInfo")

\* C11: for every configured port value P, within one setup pass the
\* rendered configuration's Port directive is P, the Unix daemon start
\* command binds P, the verification step probes exactly P, and the exported
\* port output is P.
ConfiguredPort == ctorPort(inPort)
EndsWith(s, t) ==
    Len(t) <= Len(s) /\ SubSeq(s, Len(s) - Len(t) + 1, Len(s)) = t

\* the positions of doc where a line begins with `word`, and whether the
\* line that begins at position i is `line`
DirectivesOf(doc, word) ==
    {i \in 1..Len(doc) : doc[i] = word /\ (i = 1 \/ doc[i - 1] = NL)}
LineAt(doc, i, line) ==
    /\ i + Len(line) - 1 <= Len(doc)
    /\ SubSeq(doc, i, i + Len(line) - 1) = line
    /\ (i + Len(line) <= Len(doc)) => doc[i + Len(line)] = NL

C11_PortEverywhere ==
    /\ Wrote("main", configWritePath(platform)) =>
          LET doc == files[configWritePath(platform)]
          IN  /\ Cardinality(DirectivesOf(doc, "Port")) = 1
              /\ \A i \in DirectivesOf(doc, "Port") :
                    LineAt(doc, i, <<"Port", SP>> \o ConfiguredPort)
    /\ pc \in {"authorize", "start", "verify", "export"} =>
          sshPort = ConfiguredPort
    /\ \A i \in Issued("main", "sshd") :
          EndsWith(log["main"][i].arg, <<SP, "-p", SP>> \o ConfiguredPort)
    /\ \A i \in ProbeIssued("main") : log["main"][i].arg = ConfiguredPort
    /\ \A i \in Events("main", "setOutput") :
          log["main"][i].what = "port" => log["main"][i].arg = ConfiguredPort
    /\ Called("main", "exportConnectionInfo") =>
          /\ "port" \in DOMAIN outputs
          /\ outputs["port"] = ConfiguredPort

C11_Witness ==
    /\ platform = "linux"
    /\ getInput(inPort) = <<"2", "2">>
    /\ Issued("main", "sshd") # {}
    /\ ProbeIssued("main") # {}
    /\ Called("main", "exportConnectionInfo")
    /\ outputs["port"] = <<"2", "2">>

\* C12: connection info is published at most once per run and only at the
\* end of a successful setup pass: the outputs hostname, port and username
\* are set only if Install, Configure, Authorize, Start and Verify all
\* completed without a fatal failure, and then hostname is the literal
\* localhost, port is the configured port and username is the resolved user;
\* in a failed setup pass none of these outputs is set.
ConnectionOutputs == {"hostname", "port", "username"}
ResolvedUser ==
    IF getInput(inUser) \in {<<>>, <<":current">>}
    THEN <<"runner">> ELSE getInput(inUser)
OutputSets(ph, name) ==
    {i \in Events(ph, "setOutput") : log[ph][i].what = name}
ExpectedOutput(name) ==
    CASE name = "hostname" -> <<"localhost">>
      [] name = "port" -> ConfiguredPort
      [] name = "username" -> ResolvedUser
StepsBeforeExport ==
    { "installSSHServer", "configureSSHServer", "setupAuthorizedKeys",
      "startSSHServer", "verifySSHServer" }

C12_ConnectionInfo ==
    /\ \A name \in ConnectionOutputs :
          /\ Cardinality(OutputSets("main", name)) <= 1
          /\ OutputSets("post", name) = {}
          /\ \A i \in OutputSets("main", name) :
                /\ log["main"][i].arg = ExpectedOutput(name)
                /\ \A st \in StepsBeforeExport : Before("main", "call", st, i)
                /\ \A j \in Events("main", "exec") : j < i
                /\ \E j \in ProbeIssued("main") : j < i /\ log["main"][j].ok
                /\ Before("main", "call", "exportConnectionInfo", i)
          /\ (name \in DOMAIN outputs) <=> OutputSets("main", name) # {}
          /\ name \in DOMAIN outputs => outputs[name] = ExpectedOutput(name)
    /\ Failed("main") =>
          /\ \A name \in ConnectionOutputs : OutputSets("main", name) = {}
          /\ outputs = <<>>
    /\ (PassOver /\ ~Failed("main")) =>
          \A name \in ConnectionOutputs : name \in DOMAIN outputs

C12_Witness ==
    /\ phase = "done"
    /\ ~Failed("main")
    /\ outputs["hostname"] = <<"localhost">>
    /\ outputs["port"] = <<"2", "2">>
    /\ outputs["username"] = <<"alice">>

\* C13: when no host public key file is found, or reading the host public
\* keys raises, the export step logs a warning, sets the host-keys output to
\* the empty string, still publishes hostname, port and username, and does
\* not mark the run failed.
NoHostKeyRead(ph) ==
    {i \in Events(ph, "read") : ~log[ph][i].ok \/ log[ph][i].arg = <<>>}
HostKeyWarnings ==
    { "No server public keys found to export",
      "Failed to export SSH host keys to output" }

C13_NoHostKeysTolerated ==
    \A i \in NoHostKeyRead("main") :
        /\ \E j \in Events("main", "warning") :
              j > i /\ log["main"][j].what \in HostKeyWarnings
        /\ \E j \in OutputSets("main", "host-keys") :
              j > i /\ log["main"][j].arg = <<>>
        /\ Cardinality(OutputSets("main", "host-keys")) = 1
        /\ "host-keys" \in DOMAIN outputs /\ outputs["host-keys"] = <<>>
        /\ \A name \in ConnectionOutputs :
              /\ OutputSets("main", name) # {}
              /\ name \in DOMAIN outputs
              /\ outputs[name] = ExpectedOutput(name)
        /\ ~Failed("main")
        /\ PassOver

C13_Witness ==
    /\ \E i \in Events("main", "read") : ~log["main"][i].ok
    /\ Warned("main", "Failed to export SSH host keys to output")
    /\ outputs["host-keys"] = <<>>
    /\ outputs["hostname"] = <<"localhost">>
    /\ phase = "done"

\* C14: for every non-empty literal authorized-keys input with the remote
\* fetch disabled, the resolved key set is exactly the input's lines with
\* the blank and whitespace-only lines removed, in their original order,
\* with no line altered, added or deduplicated.

\* the last position of the line of text that begins at position i
LineEnd(text, i) ==
    CHOOSE e \in (i - 1)..Len(text) :
        /\ e = Len(text) \/ text[e + 1] = NL
        /\ \A k \in i..e : text[k] # NL
IsBlank(line) == \A k \in 1..Len(line) : line[k] \in {SP, NL}

\* the lines of text from position i on that are not blank, in order
RECURSIVE KeptLinesFrom(_, _)
KeptLinesFrom(text, i) ==
    IF i > Len(text) + 1 THEN <<>>
    ELSE LET e == LineEnd(text, i)
             line == SubSeq(text, i, e)
         IN  (IF IsBlank(line) THEN <<>> ELSE <<line>>)
             \o KeptLinesFrom(text, e + 2)
KeptLines(text) == KeptLinesFrom(text, 1)

\* a file of the keys, one per line
RECURSIVE OnePerLine(_)
OnePerLine(keys) ==
    IF keys = <<>> THEN <<>> ELSE Head(keys) \o <<NL>> \o OnePerLine(Tail(keys))

LiteralInput == getInput(inKeys)
KeysFile == files[getAuthorizedKeysPath(platform)]

C14_LiteralKeysKept ==
    ( /\ Called("main", "setupAuthorizedKeys")
      /\ inUseActor = "false"
      /\ LiteralInput # <<>> )
    => /\ ~Failed("main")
       /\ pc = "start"
       /\ Events("main", "fetch") = {}
       /\ existsSync(files, getAuthorizedKeysPath(platform))
       /\ KeysFile = OnePerLine(KeptLines(LiteralInput))

C14_Witness ==
    /\ Called("main", "setupAuthorizedKeys")
    /\ inUseActor = "false"
    /\ LiteralInput = <<"kB", NL, SP, NL, "kA">>
    /\ KeysFile = <<"kB", NL, "kA", NL>>

\* C15: when both literal keys and successfully fetched remote keys exist,
\* the resolved key set is all literal keys followed by all remote keys, and
\* the authorized-keys file written by the Authorize step contains exactly
\* the keys of that set, one per line in that order (a single literal key
\* with no remote keys gives a file of exactly one line equal to the input).
Fetched(ph) == {i \in Events(ph, "fetch") : log[ph][i].ok}
LiteralKeySet == KeptLines(LiteralInput)
RemoteKeySet(ph, i) == KeptLines(log[ph][i].arg)

C15_LiteralThenRemote ==
    /\ \A i \in Fetched("main") :
          (LiteralKeySet # <<>> /\ RemoteKeySet("main", i) # <<>>) =>
              /\ Cardinality(Events("main", "fetch")) = 1
              /\ \E j \in Events("main", "write") :
                    j > i /\ log["main"][j].what = getAuthorizedKeysPath(platform)
              /\ existsSync(files, getAuthorizedKeysPath(platform))
              /\ KeysFile = OnePerLine(LiteralKeySet \o RemoteKeySet("main", i))
              /\ ~Failed("main")
    /\ ( /\ Called("main", "setupAuthorizedKeys")
         /\ Len(LiteralKeySet) = 1
         /\ LiteralInput = LiteralKeySet[1]
         /\ \A i \in Fetched("main") : RemoteKeySet("main", i) = <<>> ) =>
            /\ existsSync(files, getAuthorizedKeysPath(platform))
            /\ KeysFile = LiteralInput \o <<NL>>

C15_Witness ==
    /\ LiteralInput = <<"kB", NL, "kA">>
    /\ \E i \in Fetched("main") : log["main"][i].arg = <<"kS", NL, "kR">>
    /\ existsSync(files, getAuthorizedKeysPath(platform))
    /\ KeysFile = <<"kB", NL, "kA", NL, "kS", NL, "kR", NL>>

BackupCommand == "sudo cp /etc/ssh/sshd_config /etc/ssh/sshd_config.backup"
RestoreCommand == "sudo mv /etc/ssh/sshd_config.backup /etc/ssh/sshd_config"
BackupTaken == \E i \in Issued("main", BackupCommand) : log["main"][i].ok

C17_LinuxBackupRestore ==
    platform = "linux" =>
        /\ \A i \in Events("main", "write") :
              log["main"][i].what = configWritePath(platform) =>
                  \E j \in Issued("main", BackupCommand) : j < i
        /\ (phase = "done" /\ Called("post", "cleanup")) =>
              (BackupTaken <=>
                  \E i \in Issued("post", RestoreCommand) : log["post"][i].ok)

\* C18: on Windows the setup pass never invokes a host-key generation
\* command (key creation is left to the service's first start); on Linux and
\* macOS the key-generation utility is invoked explicitly in the Configure
\* step, before the daemon start command is issued.
KeygenCommand == "sudo ssh-keygen -A"
WindowsSetupCommands ==
    { "Add-WindowsCapability -Online -Name OpenSSH.Server",
      "Add-WindowsCapability -Online -Name OpenSSH.Client",
      "powershell Start-Service sshd",
      "powershell Test-NetConnection -ComputerName localhost -Port" }

\* the handler of run inside which event i of the setup pass happened
StepOf(i) ==
    LET c == CHOOSE j \in Events("main", "call") :
                 j < i /\ \A k \in Events("main", "call") : k < i => k <= j
    IN  log["main"][c].what

C18_HostKeyGeneration ==
    /\ platform = "win32" =>
          /\ Issued("main", KeygenCommand) = {}
          /\ \A i \in Events("main", "exec") :
                log["main"][i].what \in WindowsSetupCommands
    /\ platform \in {"linux", "darwin"} =>
          /\ \A i \in Issued("main", KeygenCommand) :
                StepOf(i) = "configureSSHServer"
          /\ Called("main", "configureSSHServer") =>
                Cardinality(Issued("main", KeygenCommand)) = 1
          /\ \A i \in StartIssued("main") :
                \E j \in Issued("main", KeygenCommand) :
                    j < i /\ log["main"][j].ok

C18_Witness ==
    /\ platform = "darwin"
    /\ Issued("main", KeygenCommand) # {}
    /\ StartIssued("main") # {}
    /\ phase = "done"

\* C19: whenever the server-key input is non-empty, the Configure step
\* writes exactly that material as the daemon's private host key at the
\* fixed well-known filename under the host-key directory with owner-only
\* read/write permission, so the daemon started afterwards uses the supplied
\* identity.
HostKeyPaths ==
    { "C:\\ProgramData\\ssh\\ssh_host_ed25519_key",
      "/etc/ssh/ssh_host_ed25519_key",
      "/home/runner/.ssh/ssh_host_ed25519_key",
      "/Users/runner/.ssh/ssh_host_ed25519_key" }
ConfigureDone == pc = "authorize" \/ Called("main", "setupAuthorizedKeys")

C19_SuppliedHostKeyWritten ==
    (getInput(inServerKey) # <<>> /\ ConfigureDone) =>
        \E path \in HostKeyPaths :
            /\ Wrote("main", path)
            /\ existsSync(files, path)
            /\ files[path] = getInput(inServerKey)

StopIssued ==
    IF platform = "win32"
    THEN Issued("post", "powershell Stop-Service sshd -Force") # {}
    ELSE \E i \in Issued("post", "sudo pkill -f") :
             log["post"][i].arg = <<"sshd.*-p", SP>> \o ConfiguredPort
TeardownOver == phase = "done"

C21_StartedDaemonStopped ==
    (StartIssued("main") # {} /\ TeardownOver) =>
        /\ Called("post", "cleanup")
        /\ StopIssued
        /\ \A i \in Issued("main", "sshd") :
              EndsWith(log["main"][i].arg, <<SP, "-p", SP>> \o ConfiguredPort)

C21_Witness ==
    /\ platform = "linux"
    /\ getInput(inPort) = <<"2", "2">>
    /\ StartIssued("main") # {}
    /\ ProbeFailed
    /\ TeardownOver
    /\ StopIssued

\* C22: the Install step is idempotent on every platform: when the daemon
\* binary is already present, the pre-check short-circuits and no
\* package-manager or capability-install command is executed.
InstallIssued == UNION {Issued("main", c) : c \in InstallCommands}
PreCheckFound == \E i \in Issued("main", "which sshd") : log["main"][i].ok
AfterFailedPreCheck(i) ==
    \E j \in IssuedFailing("main", "which sshd") : j < i

KnownDistros == {"ubuntu", "debian", "centos", "rhel", "fedora", "alpine"}
UnknownRelease ==
    \E i \in Issued("main", "cat /etc/os-release") :
        \/ ~log["main"][i].ok
        \/ \A k \in 1..Len(log["main"][i].arg) :
              log["main"][i].arg[k] \notin KnownDistros
BinaryAbsent == IssuedFailing("main", "which sshd") # {}
InstallStepWarned ==
    \E i \in Events("main", "warning") : StepOf(i) = "installSSHServer"

C23_UnknownDistroWarns ==
    (platform = "linux" /\ InstallOver /\ UnknownRelease /\ BinaryAbsent) =>
        /\ InstallIssued = {}
        /\ InstallStepWarned
        /\ ReachedConfigure
        /\ pc = "configure" => ~Failed("main")

\* C24: on Linux and macOS, teardown for configured port P terminates only
\* daemon processes whose command line binds port P: a daemon process
\* started with a different port Q (for example Q = 2222 when P = 22) is
\* never matched and terminated by the teardown's process pattern.
DaemonPorts ==
    { <<"2", "2">>, <<"2", "2", "2", "2">>, <<"8", "0", "2", "2">> }
DaemonsOf(port) ==
    { daemonCommandLine(configWritePath(plat), port) : plat \in {"linux", "darwin"} }

C24_OnlyOwnPortKilled ==
    \A i \in Issued("post", "sudo pkill -f") :
        /\ \A line \in DaemonsOf(ConfiguredPort) :
              pkillMatches(log["post"][i].arg, line)
        /\ \A Q \in DaemonPorts \ {ConfiguredPort} :
              \A line \in DaemonsOf(Q) : ~pkillMatches(log["post"][i].arg, line)

\* C25: on Linux and macOS, the configuration file path passed to the daemon
\* start command with -f is exactly the path to which the Configure step of
\* the same setup pass wrote the rendered configuration document, so the
\* daemon is never started against a file this setup pass did not write.

\* the word that follows "-f " in the arguments of a start command
ConfigArgOf(args) ==
    LET i == CHOOSE k \in 1..Len(args) :
                 args[k] = "-f" /\ \A m \in 1..(k - 1) : args[m] # "-f"
    IN  args[i + 2]

C25_StartsOnWrittenConfig ==
    \A i \in Issued("main", "sshd") :
        LET args == log["main"][i].arg
        IN  /\ platform \in {"linux", "darwin"}
            /\ \E k \in 1..Len(args) : args[k] = "-f"
            /\ \E j \in Events("main", "write") :
                  /\ j < i
                  /\ log["main"][j].what = ConfigArgOf(args)
                  /\ StepOf(j) = "configureSSHServer"
            /\ existsSync(files, ConfigArgOf(args))
            /\ files[ConfigArgOf(args)] = rendered
            /\ files[ConfigArgOf(args)] # OldConfig

C25_Witness ==
    /\ platform = "linux"
    /\ \E i \in Issued("main", "sshd") :
          ConfigArgOf(log["main"][i].arg) = "/home/runner/.ssh/sshd_config_custom"
    /\ Wrote("main", "/home/runner/.ssh/sshd_config_custom")
    /\ phase = "done"

\* C26: on every platform the file path to which the Authorize step writes
\* the resolved keys is a path named by an AuthorizedKeysFile directive of
\* the configuration rendered in the same setup pass (on Windows, the
\* directive of the Match Group administrators block), so the daemon reads
\* the keys that were written.

\* the positions of the directive `word` in doc, indented or not, and the
\* argument of the directive at position i, its quotes taken off
IndentedDirectivesOf(doc, word) ==
    {i \in 1..Len(doc) :
        /\ doc[i] = word
        /\ \E b \in 0..(i - 1) :
              /\ b = 0 \/ doc[b] = NL
              /\ \A k \in (b + 1)..(i - 1) : doc[k] = SP}
ArgumentAt(doc, i) ==
    LET k == CHOOSE m \in (i + 1)..Len(doc) :
                 /\ doc[m] \notin {SP, "\""}
                 /\ \A n \in (i + 1)..(m - 1) : doc[n] \in {SP, "\""}
    IN  doc[k]
MatchAdministrators(doc) ==
    {i \in DirectivesOf(doc, "Match") :
        LineAt(doc, i, Words(<<"Match", "Group", "administrators">>))}

\* the directives that apply to the members of administrators on Windows,
\* to every user elsewhere
KeysDirectives(doc) ==
    IF platform = "win32"
    THEN {i \in IndentedDirectivesOf(doc, "AuthorizedKeysFile") :
            \E m \in MatchAdministrators(doc) : m < i}
    ELSE IndentedDirectivesOf(doc, "AuthorizedKeysFile")
KeysWrites ==
    {j \in Events("main", "write") : StepOf(j) = "setupAuthorizedKeys"}

C26_KeysFileNamed ==
    \A j \in KeysWrites :
        /\ existsSync(files, configWritePath(platform))
        /\ files[configWritePath(platform)] = rendered
        /\ \E i \in KeysDirectives(rendered) :
              sshdFileOf(ArgumentAt(rendered, i)) = log["main"][j].what
        /\ existsSync(files, log["main"][j].what)
        /\ KeysFile = <<"kA", NL>>

C26_Witness ==
    /\ platform = "win32"
    /\ KeysWrites # {}
    /\ Wrote("main", "C:\\ProgramData\\ssh\\administrators_authorized_keys")
    /\ MatchAdministrators(rendered) # {}
    /\ phase = "done"

====
